---- MODULE Spec2Model ----
(***************************************************************************)
(* Model of the two benchmark validators of cursor_hft/scripts:            *)
(*   simple_benchmark_validator.py  (directional, "only degradation fails")*)
(*   validate_performance.py        (baseline deviation band)              *)
(*                                                                         *)
(* Python floats are IEEE-754 binary64.  The tolerance comparisons of both *)
(* scripts are computed in that arithmetic, so the model carries an exact  *)
(* binary64 layer: a float is a sign, a 53-bit mantissa (a sequence of     *)
(* 15-bit limbs, most significant first) and a binary exponent, and every  *)
(* operation rounds to nearest, ties to even, as CPython does.             *)
(***************************************************************************)
EXTENDS Integers, Sequences, FiniteSets, TLC

VARIABLES
    \* validate_metric of simple_benchmark_validator.py, called on its own
    vm_pc,                \* "ready" before the call, "done" after it
    vm_current,           \* current_value passed in (an integer-valued float)
    vm_config,            \* target_config passed in
    vm_result,            \* the (passed, message) returned
    \* simple_benchmark_validator.py: main and run_benchmark_and_validate
    s_pc,                 \* "run", "validate", "summary" or "done"
    s_quick_mode,         \* args.quick
    s_targets,            \* PERFORMANCE_TARGETS, as a sequence in dict order
    s_bench_i,            \* position of the first loop in `benchmarks`
    s_results,            \* results: the parsed outputs, in insertion order
    s_all_passed,         \* all_passed
    s_validation_results, \* validation_results, in insertion order
    s_exit_code,          \* the status given to sys.exit, -1 while running
    \* validate_performance.py: main and PerformanceValidator
    b_pc,                 \* "load", "validate", "exit" or "done"
    b_strict_mode,        \* self.strict_mode / args.strict
    b_baselines,          \* self.baselines
    b_current_results,    \* the loaded results file
    b_bench_k,            \* position of validate_all's loop
    b_all_results,        \* all_results
    b_summary,            \* summary
    b_exit,               \* the exit status and closing line of main
    \* the value extraction of either script, called on its own
    x_pc,                 \* "ready" before the call, "done" after it
    x_call,               \* the function called
    x_doc,                \* benchmark_json / benchmark_data passed in
    x_metric,             \* metric_name passed in
    x_result              \* the value returned, None, or the exception

metricVars == <<vm_pc, vm_current, vm_config, vm_result>>

simpleVars == <<s_pc, s_quick_mode, s_targets, s_bench_i, s_results,
                s_all_passed, s_validation_results, s_exit_code>>

baseVars == <<b_pc, b_strict_mode, b_baselines, b_current_results, b_bench_k,
              b_all_results, b_summary, b_exit>>

extractVars == <<x_pc, x_call, x_doc, x_metric, x_result>>

vars == <<metricVars, simpleVars, baseVars, extractVars>>

(***************************************************************************)
(* Binary64 arithmetic                                                     *)
(***************************************************************************)

\* Width of a binary64 significand.
Prec == 53

\* Big naturals are sequences of limbs in base 2^15, most significant first,
\* so that every intermediate product stays below 2^31.
LimbBits == 15

Base == 2^LimbBits

RECURSIVE Zeros(_)
Zeros(n) == IF n <= 0 THEN <<>> ELSE <<0>> \o Zeros(n - 1)

RECURSIVE Strip(_)
\* Drop leading zero limbs.
Strip(b) == IF b # <<>> /\ Head(b) = 0 THEN Strip(Tail(b)) ELSE b

RECURSIVE NatLimbs(_)
\* The limbs of a natural number (<<>> for 0).
NatLimbs(n) == IF n = 0 THEN <<>> ELSE Append(NatLimbs(n \div Base), n % Base)

RECURSIVE BitLen(_)
\* The number of bits of a natural number (0 for 0).
BitLen(n) == IF n = 0 THEN 0 ELSE 1 + BitLen(n \div 2)

\* The number of bits of a stripped limb sequence.
BitLength(b) == IF b = <<>> THEN 0 ELSE LimbBits * (Len(b) - 1) + BitLen(Head(b))

\* All but the last element of a sequence.
Front(b) == SubSeq(b, 1, Len(b) - 1)

RECURSIVE MulCarry(_, _, _)
\* b * k + c for a limb sequence b and naturals k < Base, c.
MulCarry(b, k, c) ==
    IF b = <<>> THEN NatLimbs(c)
    ELSE LET t == b[Len(b)] * k + c
         IN  Append(MulCarry(Front(b), k, t \div Base), t % Base)

MulSmall(b, k) == Strip(MulCarry(b, k, 0))

RECURSIVE DivLoop(_, _, _, _)
\* Long division of the limb sequence b by the natural d < Base, r the
\* running remainder and q the quotient limbs so far.
DivLoop(b, d, r, q) ==
    IF b = <<>> THEN [q |-> Strip(q), r |-> r]
    ELSE LET t == r * Base + Head(b)
         IN  DivLoop(Tail(b), d, t % d, Append(q, t \div d))

DivSmall(b, d) == DivLoop(b, d, 0, <<>>)

Pad(b, n) == Zeros(n - Len(b)) \o b

MaxOf(x, y) == IF x >= y THEN x ELSE y

RECURSIVE AddLoop(_, _, _)
\* a + b + c for limb sequences of equal length and a carry c.
AddLoop(a, b, c) ==
    IF a = <<>> THEN IF c = 0 THEN <<>> ELSE <<c>>
    ELSE LET t == a[Len(a)] + b[Len(b)] + c
         IN  Append(AddLoop(Front(a), Front(b), t \div Base), t % Base)

AddBig(a, b) ==
    LET n == MaxOf(Len(a), Len(b))
    IN  Strip(AddLoop(Pad(a, n), Pad(b, n), 0))

RECURSIVE SubLoop(_, _, _)
\* a - b - c for limb sequences of equal length with a >= b + c.
SubLoop(a, b, c) ==
    IF a = <<>> THEN <<>>
    ELSE LET t == a[Len(a)] - b[Len(b)] - c
         IN  Append(SubLoop(Front(a), Front(b), IF t < 0 THEN 1 ELSE 0),
                    IF t < 0 THEN t + Base ELSE t)

SubBig(a, b) ==
    LET n == MaxOf(Len(a), Len(b))
    IN  Strip(SubLoop(Pad(a, n), Pad(b, n), 0))

RECURSIVE CmpLoop(_, _)
\* -1, 0 or 1 as a < b, a = b or a > b, for limb sequences of equal length.
CmpLoop(a, b) ==
    IF a = <<>> THEN 0
    ELSE IF Head(a) # Head(b) THEN (IF Head(a) > Head(b) THEN 1 ELSE -1)
    ELSE CmpLoop(Tail(a), Tail(b))

CmpBig(a, b) ==
    LET n == MaxOf(Len(a), Len(b))
    IN  CmpLoop(Pad(a, n), Pad(b, n))

RECURSIVE ShiftLeft(_, _)
\* b * 2^n.
ShiftLeft(b, n) ==
    IF n <= 0 THEN b
    ELSE IF n >= LimbBits THEN ShiftLeft(b \o <<0>>, n - LimbBits)
    ELSE MulSmall(b, 2^n)

RECURSIVE ShiftRight(_, _, _)
\* b \div 2^n, with st telling whether a non-zero bit was dropped.
ShiftRight(b, n, st) ==
    IF n <= 0 THEN [q |-> b, st |-> st]
    ELSE LET j  == IF n >= LimbBits THEN LimbBits - 1 ELSE n
             qr == DivSmall(b, 2^j)
         IN  ShiftRight(qr.q, n - j, st \/ qr.r # 0)

FZero == [s |-> 0, m |-> <<>>, e |-> 0]

\* Round s * (b + f) * 2^e to binary64, where b is a big natural and
\* 0 <= f < 1 with f > 0 iff sticky: round to nearest, ties to even.
Round(s, b0, e, sticky) ==
    LET b == Strip(b0)
        n == BitLength(b)
    IN  IF n = 0 THEN FZero
        ELSE IF n <= Prec
        THEN [s |-> s, m |-> ShiftLeft(b, Prec - n), e |-> e - (Prec - n)]
        ELSE LET sh    == ShiftRight(b, n - Prec - 1, sticky)
                 last  == DivSmall(sh.q, 2)
                 hi    == last.q
                 up    == last.r = 1 /\ (sh.st \/ hi[Len(hi)] % 2 = 1)
                 e1    == e + (n - Prec)
                 inc   == AddBig(hi, <<1>>)
             IN  IF ~up THEN [s |-> s, m |-> hi, e |-> e1]
                 ELSE IF BitLength(inc) > Prec
                 THEN [s |-> s, m |-> DivSmall(inc, 2).q, e |-> e1 + 1]
                 ELSE [s |-> s, m |-> inc, e |-> e1]

Sign(n) == IF n > 0 THEN 1 ELSE IF n < 0 THEN -1 ELSE 0

Abs(n) == IF n < 0 THEN -n ELSE n

\* float(n) for an integer n.
FromInt(n) == Round(Sign(n), NatLimbs(Abs(n)), 0, FALSE)

FNeg(x) == [x EXCEPT !.s = -x.s]

\* x + y.
FAdd(x, y) ==
    IF x.s = 0 THEN y
    ELSE IF y.s = 0 THEN x
    ELSE LET e   == IF x.e <= y.e THEN x.e ELSE y.e
             xm  == ShiftLeft(x.m, x.e - e)
             ym  == ShiftLeft(y.m, y.e - e)
             c   == CmpBig(xm, ym)
             big == IF c >= 0 THEN xm ELSE ym
             sml == IF c >= 0 THEN ym ELSE xm
             sgn == IF c >= 0 THEN x.s ELSE y.s
         IN  Round(sgn, IF x.s = y.s THEN AddBig(big, sml) ELSE SubBig(big, sml),
                   e, FALSE)

\* x - y.
FSub(x, y) == FAdd(x, FNeg(y))

\* x / d for a float x and an integer 0 < d < 2^15.
FDivByInt(x, d) ==
    IF x.s = 0 THEN FZero
    ELSE LET k  == 1 + BitLen(d)
             qr == DivSmall(ShiftLeft(x.m, k), d)
         IN  Round(x.s, qr.q, x.e - k, qr.r # 0)

\* x * k for a float x and a natural k < 2^15.
FMulInt(x, k) ==
    IF x.s = 0 \/ k = 0 THEN FZero ELSE Round(x.s, MulSmall(x.m, k), x.e, FALSE)

FAbs(x) == [x EXCEPT !.s = Abs(x.s)]

\* Compare two positive normalised floats.
CmpPos(x, y) ==
    IF x.e # y.e THEN (IF x.e > y.e THEN 1 ELSE -1) ELSE CmpBig(x.m, y.m)

\* -1, 0 or 1 as x < y, x = y or x > y.
FCmp(x, y) ==
    IF x.s # y.s THEN (IF x.s > y.s THEN 1 ELSE -1)
    ELSE IF x.s = 0 THEN 0
    ELSE IF x.s = 1 THEN CmpPos(x, y)
    ELSE CmpPos(y, x)

FGt(x, y) == FCmp(x, y) > 0
FLt(x, y) == FCmp(x, y) < 0
FLe(x, y) == FCmp(x, y) <= 0

(***************************************************************************)
(* Strings.  A Python str is a sequence of one-character strings, so that  *)
(* str.lower(), str.replace("_", "") and the `in` substring test are       *)
(* computed, not assumed.                                                  *)
(***************************************************************************)

LowerMap ==
    [A |-> "a", B |-> "b", C |-> "c", D |-> "d", E |-> "e", F |-> "f",
     G |-> "g", H |-> "h", I |-> "i", J |-> "j", K |-> "k", L |-> "l",
     M |-> "m", N |-> "n", O |-> "o", P |-> "p", Q |-> "q", R |-> "r",
     S |-> "s", T |-> "t", U |-> "u", V |-> "v", W |-> "w", X |-> "x",
     Y |-> "y", Z |-> "z"]

\* str.lower()
Lower(str) ==
    [i \in 1..Len(str) |->
        IF str[i] \in DOMAIN LowerMap THEN LowerMap[str[i]] ELSE str[i]]

\* `sub in str`
Contains(sub, str) ==
    \E i \in 0..(Len(str) - Len(sub)) :
        \A j \in 1..Len(sub) : str[i + j] = sub[j]

\* str.replace("_", "")
StripUnderscores(str) == SelectSeq(str, LAMBDA ch : ch # "_")

\* The string literals of the scripts that take part in substring tests.
S_order_addition_ns == <<"o", "r", "d", "e", "r", "_", "a", "d", "d", "i", "t", "i", "o", "n", "_", "n", "s">>

S_sustained_load_ops_sec == <<"s", "u", "s", "t", "a", "i", "n", "e", "d", "_", "l", "o", "a", "d", "_", "o", "p", "s", "_", "s", "e", "c">>

S_throughput == <<"t", "h", "r", "o", "u", "g", "h", "p", "u", "t">>

S_BM_AddOrderLatency == <<"B", "M", "_", "A", "d", "d", "O", "r", "d", "e", "r", "L", "a", "t", "e", "n", "c", "y">>

S_BM_OrderAdditionThroughput == <<"B", "M", "_", "O", "r", "d", "e", "r", "A", "d", "d", "i", "t", "i", "o", "n", "T", "h", "r", "o", "u", "g", "h", "p", "u", "t">>

S_ops_per_second == <<"o", "p", "s", "_", "p", "e", "r", "_", "s", "e", "c", "o", "n", "d">>

(***************************************************************************)
(* Benchmark result documents (Google Benchmark JSON).                     *)
(*                                                                         *)
(* A result entry ("bench") is a record whose DOMAIN is the set of keys    *)
(* the JSON object has: "name" holds a string, "counters" a sequence of    *)
(* counters in dict order, every other key a number.  A counter's data is  *)
(* a bare number or a small dict with optional "value" and "real_time".    *)
(***************************************************************************)

CounterNum(v) ==
    [isdict |-> FALSE, num |-> v,
     has_value |-> FALSE, value |-> 0, has_real_time |-> FALSE, real_time |-> 0]

CounterDict(hasValue, v, hasRealTime, rt) ==
    [isdict |-> TRUE, num |-> 0,
     has_value |-> hasValue, value |-> v,
     has_real_time |-> hasRealTime, real_time |-> rt]

Counter(cname, cdata) == [name |-> cname, data |-> cdata]

\* bench.get("name", "")
BenchName(bench) == IF "name" \in DOMAIN bench THEN bench.name ELSE <<>>

\* The outcome of an extraction step: a value, None, or a raised exception.
\* A value is kept as the quotient num / den of two integers (den is 1
\* except for 1e9 / ns_per_op) and becomes a float in ToFloat.
Value(n) == [kind |-> "value", num |-> n, den |-> 1]

Quotient(n, d) == [kind |-> "value", num |-> n, den |-> d]

None == [kind |-> "none", num |-> 0, den |-> 1]

Raise == [kind |-> "raise", num |-> 0, den |-> 1]

\* The float an extracted value is: float(num), or num / den.
ToFloat(outcome) == FDivByInt(FromInt(outcome.num), outcome.den)

Min(set) == CHOOSE x \in set : \A y \in set : x <= y

(***************************************************************************)
(* simple_benchmark_validator.py                                           *)
(***************************************************************************)

\* A validate_metric that lets an unrecognised direction pass.
UnknownDirection_passes(direction) ==
    [passed |-> TRUE, tag |-> "GOOD", direction |-> direction,
     current |-> FZero, target |-> 0, dev |-> FZero]

\* validate_metric, line 89: an unrecognised direction.
UnknownDirection(direction) ==
    [passed |-> FALSE, tag |-> "UNKNOWN DIRECTION", direction |-> direction,
     current |-> FZero, target |-> 0, dev |-> FZero]

\* validate_metric, lines 77 and 84: the degradation thresholds.
LowerThreshold(target, tolerance_percent) ==
    FMulInt(FAdd(FromInt(1), FDivByInt(FromInt(tolerance_percent), 100)), target)

HigherThreshold(target, tolerance_percent) ==
    FMulInt(FSub(FromInt(1), FDivByInt(FromInt(tolerance_percent), 100)), target)

\* A validate_metric whose "lower" comparison is the wrong way round.
LowerDegraded_reversed(current_value, target, tolerance_percent) ==
    FLt(current_value, LowerThreshold(target, tolerance_percent))

\* validate_metric, lines 77 and 84: the comparisons against the threshold.
LowerDegraded(current_value, target, tolerance_percent) ==
    FGt(current_value, LowerThreshold(target, tolerance_percent))

HigherDegraded(current_value, target, tolerance_percent) ==
    FLt(current_value, HigherThreshold(target, tolerance_percent))

\* validate_metric(current_value, target_config) -> (passed, message).  The
\* message is kept as its tag and the three numbers it formats.
validate_metric(current_value, target_config) ==
    LET target            == target_config.target
        tolerance_percent == target_config.tolerance
        direction         == target_config.direction
        deviation_percent ==
            FMulInt(FDivByInt(FSub(current_value, FromInt(target)), target), 100)
        Msg(passed, tag)  ==
            [passed |-> passed, tag |-> tag, direction |-> direction,
             current |-> current_value, target |-> target,
             dev |-> deviation_percent]
    IN  IF direction = "lower"
        THEN IF LowerDegraded(current_value, target, tolerance_percent)
             THEN Msg(FALSE, "DEGRADED")
             ELSE Msg(TRUE, "GOOD")
        ELSE IF direction = "higher"
        THEN IF HigherDegraded(current_value, target, tolerance_percent)
             THEN Msg(FALSE, "DEGRADED")
             ELSE Msg(TRUE, "GOOD")
        ELSE UnknownDirection(direction)

\* metric_patterns.get(metric_name, [metric_name]), for the modelled metrics.
metric_patterns(metric_name) ==
    IF metric_name = S_order_addition_ns
    THEN << <<"A", "d", "d", "O", "r", "d", "e", "r",
              "L", "a", "t", "e", "n", "c", "y">> >>
    ELSE IF metric_name = S_sustained_load_ops_sec
    THEN << <<"O", "r", "d", "e", "r", "A", "d", "d", "i", "t", "i", "o", "n",
              "T", "h", "r", "o", "u", "g", "h", "p", "u", "t">> >>
    ELSE <<metric_name>>

\* Lines 152-156 and 191-193: the entry's lowered name contains a pattern.
NameMatches(bench, patterns) ==
    \E i \in 1..Len(patterns) :
        Contains(Lower(patterns[i]), Lower(BenchName(bench)))

\* A _get_benchmark_value that prefers cpu_time over real_time.
S_get_benchmark_value_cpu_first(benchmark) ==
    IF "cpu_time" \in DOMAIN benchmark
    THEN Value(benchmark.cpu_time)
    ELSE IF "real_time" \in DOMAIN benchmark
    THEN Value(benchmark.real_time)
    ELSE IF "items_per_second" \in DOMAIN benchmark
    THEN Value(benchmark.items_per_second)
    ELSE IF "bytes_per_second" \in DOMAIN benchmark
    THEN Value(benchmark.bytes_per_second)
    ELSE Raise

\* _get_benchmark_value(benchmark)
S_get_benchmark_value(benchmark) ==
    IF "real_time" \in DOMAIN benchmark
    THEN Value(benchmark.real_time)
    ELSE IF "cpu_time" \in DOMAIN benchmark
    THEN Value(benchmark.cpu_time)
    ELSE IF "items_per_second" \in DOMAIN benchmark
    THEN Value(benchmark.items_per_second)
    ELSE IF "bytes_per_second" \in DOMAIN benchmark
    THEN Value(benchmark.bytes_per_second)
    ELSE Raise

\* Lines 164-166 and 202-204: the value of a counter.
CounterValue(counter_data) ==
    IF counter_data.isdict
    THEN IF counter_data.has_value THEN Value(counter_data.value)
         ELSE IF counter_data.has_real_time
         THEN Value(counter_data.real_time)
         ELSE Value(0)
    ELSE Value(counter_data.num)

\* Line 158: the metric identifier denotes a rate.
IsRateMetric(metric_name) ==
    \/ Contains(S_throughput, metric_name)
    \/ Contains(<<"o", "p", "s", "_", "s", "e", "c">>, metric_name)
    \/ Contains(<<"m", "s", "g", "s", "_", "s", "e", "c">>, metric_name)

\* Line 163: a counter whose name marks it as a rate.
IsRateCounter(counter_name) ==
    \/ Contains(<<"p", "e", "r", "_", "s", "e", "c", "o", "n", "d">>, Lower(counter_name))
    \/ Contains(S_throughput, Lower(counter_name))

\* Lines 160-184: the rate fields of a matched entry, None when the block
\* falls through to the generic extraction.
RateValue(bench, metric_name) ==
    LET counters == IF "counters" \in DOMAIN bench THEN bench.counters ELSE <<>>
        rate     == {i \in 1..Len(counters) : IsRateCounter(counters[i].name)}
    IN  IF rate # {} THEN CounterValue(counters[Min(rate)].data)
        ELSE IF "OperationsPerSecond" \in DOMAIN bench
        THEN Value(bench.OperationsPerSecond)
        ELSE IF "MessagesPerSec" \in DOMAIN bench
        THEN Value(bench.MessagesPerSec)
        ELSE IF "OrdersPerSec" \in DOMAIN bench
        THEN Value(bench.OrdersPerSec)
        ELSE IF "items_per_second" \in DOMAIN bench
        THEN Value(bench.items_per_second)
        ELSE IF /\ "ns_per_op" \in DOMAIN bench
                /\ Contains(<<"a", "l", "l", "o", "c", "a", "t", "i", "o", "n", "_", "t", "h", "r", "o", "u", "g", "h", "p", "u", "t">>, metric_name)
                /\ bench.ns_per_op > 0
        THEN Quotient(1000000000, bench.ns_per_op)
        ELSE None

\* An extraction that takes the timing field of a matched entry whatever the
\* metric is.
MatchedValue_timing_only(bench, metric_name) == S_get_benchmark_value(bench)

\* Lines 157-187: the value of the first entry whose name matches.
MatchedValue(bench, metric_name) ==
    LET rate == IF IsRateMetric(metric_name) THEN RateValue(bench, metric_name)
                ELSE None
    IN  IF rate.kind # "none" THEN rate ELSE S_get_benchmark_value(bench)

\* Lines 196-204: the first counter, over all entries, whose lowered name
\* contains a lowered pattern.  0 when there is none, else the entry's index.
CounterMatches(counter, patterns) ==
    \E i \in 1..Len(patterns) :
        Contains(Lower(patterns[i]), Lower(counter.name))

BenchCounters(bench) ==
    IF "counters" \in DOMAIN bench THEN bench.counters ELSE <<>>

CounterScan(benchmarks, patterns) ==
    LET hits == {i \in 1..Len(benchmarks) :
                    \E j \in 1..Len(BenchCounters(benchmarks[i])) :
                        CounterMatches(BenchCounters(benchmarks[i])[j], patterns)}
    IN  IF hits = {} THEN None
        ELSE LET cs == BenchCounters(benchmarks[Min(hits)])
                 j  == Min({k \in 1..Len(cs) : CounterMatches(cs[k], patterns)})
             IN  CounterValue(cs[j].data)

\* The body of the try block of extract_benchmark_value, lines 96-204.
ExtractBody(benchmark_json, metric_name) ==
    LET benchmarks == IF "benchmarks" \in DOMAIN benchmark_json
                      THEN benchmark_json.benchmarks ELSE <<>>
        patterns   == metric_patterns(metric_name)
        named      == {i \in 1..Len(benchmarks) : NameMatches(benchmarks[i], patterns)}
        \* lines 190-194: the fallback loop repeats the containment test
        fallback   == {i \in 1..Len(benchmarks) : NameMatches(benchmarks[i], patterns)}
    IN  IF named # {} THEN MatchedValue(benchmarks[Min(named)], metric_name)
        ELSE IF fallback # {}
        THEN S_get_benchmark_value(benchmarks[Min(fallback)])
        ELSE CounterScan(benchmarks, patterns)

\* Lines 206-208: the except clause turns any exception into None.
ExtractExcept(outcome) == IF outcome.kind = "raise" THEN None ELSE outcome

\* extract_benchmark_value(benchmark_json, metric_name) -> Optional[float]
extract_benchmark_value(benchmark_json, metric_name) ==
    ExtractExcept(ExtractBody(benchmark_json, metric_name))

\* String literals of validate_performance.py and of the modelled documents.
S_add_order_latency == <<"a", "d", "d", "_", "o", "r", "d", "e", "r", "_", "l", "a", "t", "e", "n", "c", "y">>

S_cache_misses == <<"c", "a", "c", "h", "e", "_", "m", "i", "s", "s", "e", "s">>

S_timer_overhead == <<"t", "i", "m", "e", "r", "_", "o", "v", "e", "r", "h", "e", "a", "d">>

S_queue_depth == <<"q", "u", "e", "u", "e", "_", "d", "e", "p", "t", "h">>

S_BM_Timer_Overhead == <<"B", "M", "_", "T", "i", "m", "e", "r", "_", "O", "v", "e", "r", "h", "e", "a", "d">>

S_BM_CounterOnly == <<"B", "M", "_", "C", "o", "u", "n", "t", "e", "r", "O", "n", "l", "y">>

S_CacheMisses == <<"C", "a", "c", "h", "e", "M", "i", "s", "s", "e", "s">>

(***************************************************************************)
(* validate_performance.py: PerformanceValidator                           *)
(*                                                                         *)
(* A metric's configuration in the baseline file is a dict with "baseline" *)
(* and the optional keys "tolerance_percent" and "critical"; `empty` marks *)
(* the empty dict.                                                         *)
(***************************************************************************)

EmptyConfig ==
    [empty |-> TRUE, baseline |-> 0,
     has_tolerance |-> FALSE, tolerance_percent |-> 0,
     has_critical |-> FALSE, critical |-> FALSE]

MetricConfig(baseline, hasTolerance, tolerance, hasCritical, critical) ==
    [empty |-> FALSE, baseline |-> baseline,
     has_tolerance |-> hasTolerance, tolerance_percent |-> tolerance,
     has_critical |-> hasCritical, critical |-> critical]

\* _get_benchmark_value(self, benchmark)
PV_get_benchmark_value(benchmark) ==
    IF "real_time" \in DOMAIN benchmark THEN Value(benchmark.real_time)
    ELSE IF "cpu_time" \in DOMAIN benchmark THEN Value(benchmark.cpu_time)
    ELSE IF "items_per_second" \in DOMAIN benchmark
    THEN Value(benchmark.items_per_second)
    ELSE IF "bytes_per_second" \in DOMAIN benchmark
    THEN Value(benchmark.bytes_per_second)
    ELSE Raise

\* Lines 126-131: the pattern groups of _matches_metric_pattern.
PatternGroups ==
    << << <<"l", "a", "t", "e", "n", "c", "y">>, <<"n", "s">>,
          <<"t", "i", "m", "e">> >>,
       << S_throughput, <<"o", "p", "s">>, <<"s", "e", "c">>,
          <<"r", "a", "t", "e">> >>,
       << <<"a", "l", "l", "o", "c", "a", "t", "i", "o", "n">>,
          <<"a", "l", "l", "o", "c">>, <<"m", "e", "m", "o", "r", "y">> >>,
       << <<"o", "v", "e", "r", "h", "e", "a", "d">>,
          <<"c", "o", "s", "t">> >> >>

AnyIn(words, str) == \E i \in 1..Len(words) : Contains(words[i], str)

\* _matches_metric_pattern(self, benchmark_name, metric_name)
matches_metric_pattern(benchmark_name, metric_name) ==
    \E g \in 1..Len(PatternGroups) :
        /\ AnyIn(PatternGroups[g], Lower(metric_name))
        /\ AnyIn(PatternGroups[g], Lower(benchmark_name))

\* Line 87: the direct match of the metric name in the lowered entry name.
DirectMatch(bench, metric_name) == Contains(metric_name, Lower(BenchName(bench)))

\* Line 94: a counter whose name, underscores removed and lowered, contains
\* the metric name treated likewise.
PV_CounterMatches(counter, metric_name) ==
    Contains(Lower(StripUnderscores(metric_name)),
             Lower(StripUnderscores(counter.name)))

CounterHits(bench, metric_name) ==
    {j \in 1..Len(BenchCounters(bench)) :
        PV_CounterMatches(BenchCounters(bench)[j], metric_name)}

\* Lines 83-97 for one entry: the direct match first, then its counters.
EntryValue(bench, metric_name) ==
    IF DirectMatch(bench, metric_name) THEN PV_get_benchmark_value(bench)
    ELSE CounterValue(BenchCounters(bench)[Min(CounterHits(bench, metric_name))].data)

\* _extract_metric_value(self, benchmark_data, metric_name): Raise stands for
\* each ValueError of lines 78, 104 and 118.
extract_metric_value(benchmark_data, metric_name) ==
    IF "benchmarks" \notin DOMAIN benchmark_data THEN Raise
    ELSE LET benchmarks == benchmark_data.benchmarks
             first  == {i \in 1..Len(benchmarks) :
                          \/ DirectMatch(benchmarks[i], metric_name)
                          \/ CounterHits(benchmarks[i], metric_name) # {}}
             second == {i \in 1..Len(benchmarks) :
                          matches_metric_pattern(BenchName(benchmarks[i]),
                                                 metric_name)}
         IN  IF first # {} THEN EntryValue(benchmarks[Min(first)], metric_name)
             ELSE IF second # {}
             THEN PV_get_benchmark_value(benchmarks[Min(second)])
             ELSE Raise

\* A MetricResult.
MetricResult(name, baseline, current, tolerance_percent, result, deviation_percent, is_critical) ==
    [name |-> name, baseline |-> baseline, current |-> current,
     tolerance_percent |-> tolerance_percent, result |-> result,
     deviation_percent |-> deviation_percent, is_critical |-> is_critical]

\* Lines 144-145: baselines["benchmarks"].get(benchmark_name, {})
\* .get("metrics", {}), as the sequence of (name, config) in dict order.
BaselineMetrics(baseline_doc, benchmark_name) ==
    LET hit == {i \in 1..Len(baseline_doc.benchmarks) :
                   baseline_doc.benchmarks[i].name = benchmark_name}
    IN  IF hit = {} THEN <<>> ELSE baseline_doc.benchmarks[Min(hit)].metrics

\* Line 145: .get(metric_name, {})
ConfigOf(metrics, metric_name) ==
    LET hit == {i \in 1..Len(metrics) : metrics[i].name = metric_name}
    IN  IF hit = {} THEN EmptyConfig ELSE metrics[Min(hit)].config

\* A validator that reports a metric without configuration as a failure.
MissingResult_fails(metric_name) ==
    MetricResult(metric_name, 0, FZero, 0, "FAIL", FZero, FALSE)

\* Lines 147-156: no configuration for the metric.
MissingResult(metric_name) ==
    MetricResult(metric_name, 0, FZero, 0, "MISSING", FZero, FALSE)

\* Lines 159-160: the metric's tolerance, or the global default.
ToleranceOf(metric_config, baseline_doc) ==
    IF metric_config.has_tolerance THEN metric_config.tolerance_percent
    ELSE baseline_doc.default_tolerance_percent

\* A validator that drops the "critical" key.
CriticalOf_dropped(metric_config) == FALSE

\* Line 161: metric_config.get("critical", False)
CriticalOf(metric_config) ==
    IF metric_config.has_critical THEN metric_config.critical ELSE FALSE

\* A validator that loses the baseline when the extraction raises.
ErrorResult_without_baseline(name, baseline, tolerance, critical) ==
    MetricResult(name, 0, FZero, tolerance, "ERROR", FZero, critical)

\* Lines 165-175: the extraction raised.
ErrorResult(metric_name, baseline_value, tolerance_percent, is_critical) ==
    MetricResult(metric_name, baseline_value, FZero, tolerance_percent,
                 "ERROR", FZero, is_critical)

\* Line 178.
Deviation(current, baseline_value) ==
    FMulInt(FDivByInt(FSub(current, FromInt(baseline_value)), baseline_value),
            100)

\* Line 184: the warning band, escalated in strict mode.
WarningBand(strict) == IF ~strict THEN "WARNING" ELSE "FAIL"

\* Lines 181-186.
Classify(deviation_percent, tolerance_percent, strict) ==
    IF FLe(FAbs(deviation_percent), FromInt(tolerance_percent)) THEN "PASS"
    ELSE IF FLe(FAbs(deviation_percent), FromInt(tolerance_percent * 2))
    THEN WarningBand(strict)
    ELSE "FAIL"

\* validate_metric(self, benchmark_name, metric_name, benchmark_data), with
\* self.baselines and self.strict_mode as parameters.
PV_validate_metric(baseline_doc, strict, benchmark_name, metric_name, benchmark_data) ==
    LET metric_config == ConfigOf(BaselineMetrics(baseline_doc, benchmark_name),
                                  metric_name)
        baseline_value    == metric_config.baseline
        tolerance_percent == ToleranceOf(metric_config, baseline_doc)
        is_critical       == CriticalOf(metric_config)
        extracted         == extract_metric_value(benchmark_data, metric_name)
        current_value     == ToFloat(extracted)
        deviation_percent == Deviation(current_value, baseline_value)
    IN  IF metric_config.empty THEN MissingResult(metric_name)
        ELSE IF extracted.kind = "raise"
        THEN ErrorResult(metric_name, baseline_value, tolerance_percent,
                         is_critical)
        ELSE MetricResult(metric_name, baseline_value, current_value,
                          tolerance_percent,
                          Classify(deviation_percent, tolerance_percent, strict),
                          deviation_percent, is_critical)

\* validate_benchmark(self, benchmark_name, benchmark_data)
validate_benchmark(baseline_doc, strict, benchmark_name, benchmark_data) ==
    LET metrics == BaselineMetrics(baseline_doc, benchmark_name)
    IN  [i \in 1..Len(metrics) |->
            PV_validate_metric(baseline_doc, strict, benchmark_name,
                               metrics[i].name, benchmark_data)]

(***************************************************************************)
(* Bounds and input sets                                                   *)
(***************************************************************************)

\* Observed values are drawn within this distance of a tolerance boundary.
ObsSpread == 1

\* The executables of the benchmark list that a modelled run goes through.
MaxBenchmarks == 2

\* target, tolerance and direction values given to validate_metric.  1400/15
\* is order_addition_ns of PERFORMANCE_TARGETS.
Targets == {25, 100, 1400}

Tolerances == {0, 15, 16, 42, 44}

Directions == {"lower", "higher", "sideways"}

\* The exact tolerance boundaries target * (100 +- tolerance) / 100, rounded
\* down to an integer.
UpperEdge(target, tolerance) == (target * (100 + tolerance)) \div 100

LowerEdge(target, tolerance) == (target * (100 - tolerance)) \div 100

Around(n) == {m \in (n - ObsSpread)..(n + ObsSpread) : m >= 0}

ObservedNear(target, tolerance) ==
    Around(target) \cup Around(UpperEdge(target, tolerance))
                   \cup Around(LowerEdge(target, tolerance))

(***************************************************************************)
(* validate_metric called on its own                                       *)
(***************************************************************************)

NoResult == UnknownDirection("")

MetricIdle ==
    /\ vm_pc = "idle"
    /\ vm_current = 0
    /\ vm_config = [target |-> 1, tolerance |-> 0, direction |-> "lower"]
    /\ vm_result = NoResult

SimpleIdle ==
    /\ s_pc = "idle"
    /\ s_quick_mode = FALSE
    /\ s_targets = <<>>
    /\ s_bench_i = 0
    /\ s_results = <<>>
    /\ s_all_passed = TRUE
    /\ s_validation_results = <<>>
    /\ s_exit_code = -1

BaseIdle ==
    /\ b_pc = "idle"
    /\ b_strict_mode = FALSE
    /\ b_baselines = <<>>
    /\ b_current_results = <<>>
    /\ b_bench_k = 0
    /\ b_all_results = <<>>
    /\ b_summary = <<>>
    /\ b_exit = [code |-> -1, line |-> ""]

ExtractIdle ==
    /\ x_pc = "idle"
    /\ x_call = ""
    /\ x_doc = <<>>
    /\ x_metric = <<>>
    /\ x_result = None

MetricInit ==
    /\ vm_pc = "ready"
    /\ \E t \in Targets, tol \in Tolerances, d \in Directions :
          /\ vm_config = [target |-> t, tolerance |-> tol, direction |-> d]
          /\ vm_current \in ObservedNear(t, tol)
    /\ vm_result = NoResult
    /\ SimpleIdle
    /\ BaseIdle
    /\ ExtractIdle

\* A call validate_metric(current_value, target_config).
CallValidateMetric ==
    /\ vm_pc = "ready"
    /\ vm_result' = validate_metric(FromInt(vm_current), vm_config)
    /\ vm_pc' = "done"
    /\ UNCHANGED <<vm_current, vm_config, simpleVars, baseVars, extractVars>>

MetricNext == CallValidateMetric

SpecMetric == MetricInit /\ [][MetricNext]_vars

(***************************************************************************)
(* simple_benchmark_validator.py: run_benchmark_and_validate and main      *)
(***************************************************************************)

\* The entries of PERFORMANCE_TARGETS the model carries (lines 22 and 30),
\* in dict order.
PERFORMANCE_TARGETS ==
    << [name |-> S_order_addition_ns,
        config |-> [target |-> 1400, tolerance |-> 15, direction |-> "lower"]],
       [name |-> S_sustained_load_ops_sec,
        config |-> [target |-> 900, tolerance |-> 20, direction |-> "higher"]] >>

\* PERFORMANCE_TARGETS is module data.  Besides the table as shipped, the
\* model runs tables in which one entry carries a direction that is neither
\* "lower" nor "higher" (a configuration error).
Misconfigured(i) ==
    [PERFORMANCE_TARGETS EXCEPT ![i].config.direction = "sideways"]

TargetTables ==
    {PERFORMANCE_TARGETS} \cup
    {Misconfigured(i) : i \in 1..Len(PERFORMANCE_TARGETS)}

\* Lines 234-252: the executables, all of them or the quick subset.
AllBenchmarks ==
    << "hft_timing_benchmark", "hft_order_book_benchmark",
       "hft_end_to_end_benchmark", "hft_object_pool_benchmark",
       "hft_spsc_ring_buffer_benchmark", "hft_feed_handler_benchmark",
       "hft_treasury_yield_benchmark", "hft_treasury_pool_benchmark",
       "hft_treasury_ring_buffer_benchmark" >>

QuickBenchmarks ==
    << "hft_timing_benchmark", "hft_order_book_benchmark",
       "hft_end_to_end_benchmark" >>

\* The list the run goes through, cut to the first MaxBenchmarks executables.
Benchmarks(quick) ==
    LET full == IF quick THEN QuickBenchmarks ELSE AllBenchmarks
    IN  SubSeq(full, 1, IF Len(full) < MaxBenchmarks THEN Len(full)
                        ELSE MaxBenchmarks)

\* Result entries an executable may print.
LatencyEntry(rt) == [name |-> S_BM_AddOrderLatency, real_time |-> rt]

UnreadableEntry == [name |-> S_BM_AddOrderLatency, iterations |-> 1000]

ThroughputEntry(rt, ops) ==
    [name |-> S_BM_OrderAdditionThroughput, real_time |-> rt,
     counters |-> <<Counter(S_ops_per_second, CounterNum(ops))>>]

Doc(entries) == [benchmarks |-> entries]

\* The JSON documents an executable may print: latency entries on and next
\* to the order_addition_ns boundary, an entry without any timing field, a
\* throughput entry on and below the sustained_load_ops_sec boundary, both
\* metrics together, no entries, and a document without "benchmarks".
SimpleDocs ==
    {Doc(<<LatencyEntry(rt)>>) : rt \in {1400, 1610, 1611}}
    \cup {Doc(<<UnreadableEntry>>)}
    \cup {Doc(<<ThroughputEntry(5, ops)>>) : ops \in {719, 720}}
    \cup {Doc(<<LatencyEntry(1400), ThroughputEntry(5, 900)>>)}
    \cup {Doc(<<>>), [context |-> 0]}

SimpleInit ==
    /\ s_pc = "run"
    /\ s_quick_mode \in BOOLEAN
    /\ s_targets \in TargetTables
    /\ s_bench_i = 1
    /\ s_results = <<>>
    /\ s_all_passed = TRUE
    /\ s_validation_results = <<>>
    /\ s_exit_code = -1
    /\ MetricIdle
    /\ BaseIdle
    /\ ExtractIdle

Running ==
    /\ s_pc = "run"
    /\ s_bench_i <= Len(Benchmarks(s_quick_mode))

\* Lines 261-263: the executable does not exist.
SkipBenchmark ==
    /\ Running
    /\ s_bench_i' = s_bench_i + 1
    /\ UNCHANGED <<s_pc, s_quick_mode, s_targets, s_results, s_all_passed,
                   s_validation_results, s_exit_code, metricVars, baseVars, extractVars>>

\* Lines 273-276 and 282-285: the executable returns a non-zero status, or
\* running it or parsing its output raises.
BenchmarkFailed ==
    /\ Running
    /\ s_all_passed' = FALSE
    /\ s_bench_i' = s_bench_i + 1
    /\ UNCHANGED <<s_pc, s_quick_mode, s_targets, s_results,
                   s_validation_results, s_exit_code, metricVars, baseVars, extractVars>>

\* Lines 278-280: its output parses and is stored under its name.
BenchmarkRan ==
    /\ Running
    /\ \E doc \in SimpleDocs :
          s_results' = Append(s_results,
                              [name |-> Benchmarks(s_quick_mode)[s_bench_i],
                               data |-> doc])
    /\ s_bench_i' = s_bench_i + 1
    /\ UNCHANGED <<s_pc, s_quick_mode, s_targets, s_all_passed,
                   s_validation_results, s_exit_code, metricVars, baseVars, extractVars>>

\* Lines 287-291: the first loop is over.
StartValidation ==
    /\ s_pc = "run"
    /\ s_bench_i > Len(Benchmarks(s_quick_mode))
    /\ s_pc' = "validate"
    /\ UNCHANGED <<s_quick_mode, s_targets, s_bench_i, s_results, s_all_passed,
                   s_validation_results, s_exit_code, metricVars, baseVars, extractVars>>

\* Lines 295-299: the first value that is not None, over the results in
\* insertion order.
FindValue(res, metric_name) ==
    LET found == {i \in 1..Len(res) :
                     extract_benchmark_value(res[i].data, metric_name).kind
                         = "value"}
    IN  IF found = {} THEN None
        ELSE extract_benchmark_value(res[Min(found)].data, metric_name)

\* Lines 301-304: the entry of validation_results of a metric not found.
NotFound ==
    [passed |-> FALSE, tag |-> "NOT FOUND", direction |-> "",
     current |-> FZero, target |-> 0, dev |-> FZero]

\* Lines 301-304: what a metric that was not found does to all_passed.
AllPassedAfterNotFound(passed_so_far) == passed_so_far

\* Lines 313-314.
AllPassedAfter(passed_so_far, passed) ==
    IF ~passed THEN FALSE ELSE passed_so_far

\* Lines 293-314: one iteration of the loop over PERFORMANCE_TARGETS.
ValidateNextMetric ==
    /\ s_pc = "validate"
    /\ Len(s_validation_results) < Len(s_targets)
    /\ LET entry   == s_targets[Len(s_validation_results) + 1]
           current == FindValue(s_results, entry.name)
           outcome == validate_metric(ToFloat(current), entry.config)
       IN  IF current.kind = "none"
           THEN /\ s_validation_results' = Append(s_validation_results, NotFound)
                /\ s_all_passed' = AllPassedAfterNotFound(s_all_passed)
           ELSE /\ s_validation_results' = Append(s_validation_results, outcome)
                /\ s_all_passed' = AllPassedAfter(s_all_passed, outcome.passed)
    /\ UNCHANGED <<s_pc, s_quick_mode, s_targets, s_bench_i, s_results,
                   s_exit_code, metricVars, baseVars, extractVars>>

\* Lines 316-323 and 330-331: the summary, the return of all_passed and
\* main's sys.exit(0 if success else 1).
SimpleExit ==
    /\ s_pc = "validate"
    /\ Len(s_validation_results) = Len(s_targets)
    /\ s_exit_code' = IF s_all_passed THEN 0 ELSE 1
    /\ s_pc' = "done"
    /\ UNCHANGED <<s_quick_mode, s_targets, s_bench_i, s_results, s_all_passed,
                   s_validation_results, metricVars, baseVars, extractVars>>

SimpleNext ==
    \/ SkipBenchmark
    \/ BenchmarkFailed
    \/ BenchmarkRan
    \/ StartValidation
    \/ ValidateNextMetric
    \/ SimpleExit

SpecSimple == SimpleInit /\ [][SimpleNext]_vars

(***************************************************************************)
(* validate_performance.py: validate_all and main                          *)
(***************************************************************************)

\* The baseline file: global_settings.default_tolerance_percent and, in dict
\* order, each benchmark with its metrics.
BaselineDoc(latency_config, counter_config) ==
    [default_tolerance_percent |-> 10,
     benchmarks |->
        << [name |-> "order_book",
            metrics |-> << [name |-> S_add_order_latency,
                            config |-> latency_config],
                           [name |-> S_cache_misses,
                            config |-> counter_config] >>],
           [name |-> "timing",
            metrics |-> << [name |-> S_timer_overhead,
                            config |-> MetricConfig(100, TRUE, 10,
                                                    FALSE, FALSE)] >>] >>]

\* The configurations of add_order_latency: with and without its own
\* tolerance, with and without "critical", and the empty dict.
LatencyConfigs ==
    {MetricConfig(b, ht, IF ht THEN t ELSE 0, hc, IF hc THEN c ELSE FALSE) :
        b \in {50, 1000}, ht \in BOOLEAN, t \in {0, 14},
        hc \in BOOLEAN, c \in BOOLEAN}
    \cup {EmptyConfig}

\* cache_misses is critical or not, with baseline 100 and tolerance 10.
CounterConfigs == {MetricConfig(100, TRUE, 10, TRUE, c) : c \in BOOLEAN}

\* The band edges baseline * (100 +- k * tolerance) / 100, k = 1, 2.
BandEdges(baseline, tolerance) ==
    {(baseline * (100 + k * tolerance)) \div 100 : k \in {-2, -1, 1, 2}}

ObservedAtBands(baseline, tolerance) ==
    UNION {Around(e) : e \in BandEdges(baseline, tolerance)}

\* An entry that only carries the counter CacheMisses.
CounterEntry(v) ==
    [name |-> S_BM_CounterOnly, iterations |-> 1000,
     counters |-> <<Counter(S_CacheMisses, CounterNum(v))>>]

\* The results of order_book: a latency on and next to a band edge of the
\* configuration, an entry without any timing field, no latency entry at
\* all, and a document without "benchmarks".
OrderBookDocs(config, baseline_doc) ==
    {Doc(<<LatencyEntry(o), CounterEntry(v)>>) :
        o \in IF config.empty THEN {50}
              ELSE ObservedAtBands(config.baseline,
                                   ToleranceOf(config, baseline_doc)),
        v \in {100, 125}}
    \cup {Doc(<<UnreadableEntry, CounterEntry(100)>>),
          Doc(<<CounterEntry(100)>>), [context |-> 0]}

\* The results of timing: a run with cpu_time only, and a run that failed.
TimingDocs ==
    {Doc(<<[name |-> S_BM_Timer_Overhead, cpu_time |-> 100]>>),
     Doc(<<[name |-> S_BM_Timer_Overhead, error_occurred |-> TRUE]>>)}

\* current_results["benchmarks"]: benchmark name -> document; a benchmark may
\* have no entry.
ResultsFile(order_book, timing) ==
    [n \in {"order_book", "timing"} |->
        IF n = "order_book" THEN order_book ELSE timing]

OnlyOrderBook(order_book) == [n \in {"order_book"} |-> order_book]

BaselineInit ==
    /\ b_pc = "load"
    /\ b_strict_mode \in BOOLEAN
    /\ \E lc \in LatencyConfigs, cc \in CounterConfigs :
          /\ b_baselines = BaselineDoc(lc, cc)
          /\ \E ob \in OrderBookDocs(lc, BaselineDoc(lc, cc)) :
                b_current_results \in
                    {ResultsFile(ob, t) : t \in TimingDocs}
                    \cup {OnlyOrderBook(ob)}
    /\ b_bench_k = 1
    /\ b_all_results = <<>>
    /\ b_summary = <<>>
    /\ b_exit = [code |-> -1, line |-> ""]
    /\ MetricIdle
    /\ SimpleIdle
    /\ ExtractIdle

\* Lines 219-224: the results file is gone or is not JSON.
LoadFails ==
    /\ b_pc = "load"
    /\ b_exit' = [code |-> 1, line |-> "Error"]
    /\ b_pc' = "done"
    /\ UNCHANGED <<b_strict_mode, b_baselines, b_current_results, b_bench_k,
                   b_all_results, b_summary, metricVars, simpleVars, extractVars>>

\* Lines 216-230: the results file is loaded.
LoadResults ==
    /\ b_pc = "load"
    /\ b_pc' = "validate"
    /\ UNCHANGED <<b_strict_mode, b_baselines, b_current_results, b_bench_k,
                   b_all_results, b_summary, b_exit, metricVars, simpleVars, extractVars>>

InLoop ==
    /\ b_pc = "validate"
    /\ b_bench_k <= Len(b_baselines.benchmarks)

\* Line 233: benchmarks_data.get(benchmark_name); <<>> stands for None.
BenchmarkData(current_results, benchmark_name) ==
    IF benchmark_name \in DOMAIN current_results
    THEN current_results[benchmark_name] ELSE <<>>

\* Line 235: not benchmark_data.
Falsy(benchmark_data) == DOMAIN benchmark_data = {}

\* Line 239: "error" in str(benchmark_data), over the keys and entry names
\* of the modelled documents.
HasErrorText(benchmark_data) ==
    \/ DOMAIN benchmark_data \cap {"error", "error_occurred"} # {}
    \/ /\ "benchmarks" \in DOMAIN benchmark_data
       /\ \E i \in 1..Len(benchmark_data.benchmarks) :
             \/ "error_occurred" \in DOMAIN benchmark_data.benchmarks[i]
             \/ Contains(<<"e", "r", "r", "o", "r">>, BenchName(benchmark_data.benchmarks[i]))

CurrentName == b_baselines.benchmarks[b_bench_k].name

\* Lines 235-237.
SkipNoResults ==
    /\ InLoop
    /\ Falsy(BenchmarkData(b_current_results, CurrentName))
    /\ b_bench_k' = b_bench_k + 1
    /\ UNCHANGED <<b_pc, b_strict_mode, b_baselines, b_current_results,
                   b_all_results, b_summary, b_exit, metricVars, simpleVars, extractVars>>

\* Lines 239-241.
SkipErrored ==
    /\ InLoop
    /\ ~Falsy(BenchmarkData(b_current_results, CurrentName))
    /\ HasErrorText(BenchmarkData(b_current_results, CurrentName))
    /\ b_bench_k' = b_bench_k + 1
    /\ UNCHANGED <<b_pc, b_strict_mode, b_baselines, b_current_results,
                   b_all_results, b_summary, b_exit, metricVars, simpleVars, extractVars>>

\* Lines 243-244.
ValidateBenchmark ==
    /\ InLoop
    /\ ~Falsy(BenchmarkData(b_current_results, CurrentName))
    /\ ~HasErrorText(BenchmarkData(b_current_results, CurrentName))
    /\ b_all_results' =
          b_all_results \o
          validate_benchmark(b_baselines, b_strict_mode, CurrentName,
                             BenchmarkData(b_current_results, CurrentName))
    /\ b_bench_k' = b_bench_k + 1
    /\ UNCHANGED <<b_pc, b_strict_mode, b_baselines, b_current_results,
                   b_summary, b_exit, metricVars, simpleVars, extractVars>>

\* The members of ValidationResult (lines 20-25).
ValidationResult == {"PASS", "FAIL", "WARNING", "MISSING", "ERROR"}

Count(results, tag) ==
    Cardinality({i \in 1..Len(results) : results[i].result = tag})

\* Lines 227 and 246-248.
Summary(results) == [tag \in ValidationResult |-> Count(results, tag)]

\* Lines 246-250: the loop is over.
Summarise ==
    /\ b_pc = "validate"
    /\ b_bench_k > Len(b_baselines.benchmarks)
    /\ b_summary' = Summary(b_all_results)
    /\ b_pc' = "exit"
    /\ UNCHANGED <<b_strict_mode, b_baselines, b_current_results, b_bench_k,
                   b_all_results, b_exit, metricVars, simpleVars, extractVars>>

\* A main that also counts a critical metric whose value could not be
\* extracted.
CriticalFailures_with_errors(results) ==
    Cardinality({i \in 1..Len(results) :
                    /\ results[i].is_critical
                    /\ results[i].result \in {"FAIL", "ERROR"}})

\* Line 339.
CriticalFailures(results) ==
    Cardinality({i \in 1..Len(results) :
                    results[i].is_critical /\ results[i].result = "FAIL"})

\* A main that exits 1 on any failure, strict or not.
NonCriticalExit_always_1(strict) == [code |-> 1, line |-> "WARNING"]

\* Lines 345-350: failures, none of them critical.
NonCriticalExit(strict) ==
    [code |-> IF strict THEN 1 ELSE 0, line |-> "WARNING"]

\* Lines 342-353.
ExitOf(results, summary, strict) ==
    IF CriticalFailures(results) > 0
    THEN [code |-> 1, line |-> "CRITICAL FAILURE"]
    ELSE IF summary["FAIL"] > 0 THEN NonCriticalExit(strict)
    ELSE [code |-> 0, line |-> "SUCCESS"]

\* Lines 332-353 of main, after validate_all returned.
MainExit ==
    /\ b_pc = "exit"
    /\ b_exit' = ExitOf(b_all_results, b_summary, b_strict_mode)
    /\ b_pc' = "done"
    /\ UNCHANGED <<b_strict_mode, b_baselines, b_current_results, b_bench_k,
                   b_all_results, b_summary, metricVars, simpleVars, extractVars>>

BaselineNext ==
    \/ LoadFails
    \/ LoadResults
    \/ SkipNoResults
    \/ SkipErrored
    \/ ValidateBenchmark
    \/ Summarise
    \/ MainExit

SpecBaseline == BaselineInit /\ [][BaselineNext]_vars

(***************************************************************************)
(* The value extraction of either script, called on its own                *)
(***************************************************************************)

\* The longest list of entries in a document passed to the extraction.
MaxEntries == 2

\* The number an entry holds under a key; every key has its own.
FieldValue(key) ==
    CASE key = "real_time" -> 11
      [] key = "cpu_time" -> 12
      [] key = "items_per_second" -> 13
      [] key = "bytes_per_second" -> 14
      [] key = "OperationsPerSecond" -> 21
      [] key = "MessagesPerSec" -> 22
      [] key = "OrdersPerSec" -> 23
      [] key = "ns_per_op" -> 4
      [] OTHER -> 1000

\* A result entry with the given name, numeric keys and counters.
Entry(ename, keys, counters) ==
    [k \in {"name"} \cup keys
           \cup (IF counters = <<>> THEN {} ELSE {"counters"}) |->
        IF k = "name" THEN ename
        ELSE IF k = "counters" THEN counters
        ELSE FieldValue(k)]

\* Entries named BM_AddOrderLatency with every combination of the four
\* timing fields.
TimedEntries ==
    {Entry(S_BM_AddOrderLatency, keys, <<>>) :
        keys \in SUBSET {"real_time", "cpu_time", "items_per_second",
                         "bytes_per_second"}}

\* The data a counter may hold: a bare number, or a dict with "value", with
\* "real_time" only, or with neither.
CounterData(v) ==
    {CounterNum(v), CounterDict(TRUE, v + 1, TRUE, v + 2),
     CounterDict(FALSE, 0, TRUE, v + 2), CounterDict(FALSE, 0, FALSE, 0)}

\* Entries named BM_OrderAdditionThroughput: a primary timing field, with a
\* rate counter (alone, or after a counter that is no rate), with one of the
\* alternate rate fields, with ns_per_op, and with none of them.
RateEntries ==
    {Entry(S_BM_OrderAdditionThroughput, {"real_time"},
           <<Counter(S_ops_per_second, d)>>) : d \in CounterData(41)}
    \cup {Entry(S_BM_OrderAdditionThroughput, {"real_time", "items_per_second"},
                <<Counter(S_CacheMisses, CounterNum(35)),
                  Counter(S_throughput, CounterNum(45))>>)}
    \cup {Entry(S_BM_OrderAdditionThroughput, {"real_time", k}, <<>>) :
             k \in {"OperationsPerSecond", "MessagesPerSec", "OrdersPerSec",
                    "items_per_second", "ns_per_op"}}
    \cup {Entry(S_BM_OrderAdditionThroughput, {"real_time"},
                <<Counter(S_CacheMisses, CounterNum(35))>>),
          Entry(S_BM_OrderAdditionThroughput, {"cpu_time"}, <<>>),
          Entry(S_BM_OrderAdditionThroughput, {"iterations"}, <<>>)}

\* Entries whose name matches no metric, with a counter named cache_misses,
\* CacheMisses or TimerOverhead.
CounterEntries ==
    {Entry(S_BM_CounterOnly, {"iterations"}, <<Counter(S_cache_misses, d)>>) :
        d \in CounterData(31)}
    \cup {Entry(S_BM_CounterOnly, {"iterations"},
                <<Counter(S_CacheMisses, CounterNum(35))>>),
          Entry(S_BM_CounterOnly, {"real_time"},
                <<Counter(<<"T", "i", "m", "e", "r", "O", "v", "e", "r", "h",
                            "e", "a", "d">>, CounterNum(37))>>)}

\* Entries that come second in a document.
LaterEntries ==
    {Entry(S_BM_AddOrderLatency, {"real_time", "cpu_time"}, <<>>),
     Entry(S_BM_AddOrderLatency, {"iterations"}, <<>>),
     Entry(S_BM_Timer_Overhead, {"cpu_time"}, <<>>),
     Entry(S_BM_OrderAdditionThroughput, {"real_time"},
           <<Counter(S_ops_per_second, CounterNum(41))>>),
     Entry(S_BM_CounterOnly, {"iterations"},
           <<Counter(S_cache_misses, CounterNum(31))>>)}

\* The lists of at most n entries: one of TimedEntries, RateEntries or
\* CounterEntries, then LaterEntries.
RECURSIVE EntryLists(_)
EntryLists(n) ==
    IF n = 0 THEN {<<>>}
    ELSE IF n = 1 THEN {<<>>} \cup {<<e>> : e \in TimedEntries \cup RateEntries \cup CounterEntries}
    ELSE EntryLists(n - 1)
         \cup {Append(l, e) : l \in {m \in EntryLists(n - 1) : Len(m) = n - 1},
                              e \in LaterEntries}

ExtractDocs == {Doc(l) : l \in EntryLists(MaxEntries)} \cup {[context |-> 0]}

\* The metric names passed in: two keys of PERFORMANCE_TARGETS and three
\* metrics of a baseline file.
ExtractMetrics ==
    {S_order_addition_ns, S_sustained_load_ops_sec, S_add_order_latency,
     S_cache_misses, S_timer_overhead}

ExtractInit ==
    /\ x_pc = "ready"
    /\ x_call = ""
    /\ x_doc \in ExtractDocs
    /\ x_metric \in ExtractMetrics
    /\ x_result = None
    /\ MetricIdle
    /\ SimpleIdle
    /\ BaseIdle

Returned(call, result) ==
    /\ x_pc = "ready"
    /\ x_pc' = "done"
    /\ x_call' = call
    /\ x_result' = result
    /\ UNCHANGED <<x_doc, x_metric, metricVars, simpleVars, baseVars>>

\* extract_benchmark_value(benchmark_json, metric_name) of
\* simple_benchmark_validator.py.
CallExtractBenchmarkValue ==
    /\ x_pc = "ready"
    /\ Returned("extract_benchmark_value",
                extract_benchmark_value(x_doc, x_metric))

\* self._extract_metric_value(benchmark_data, metric_name) of
\* validate_performance.py.
CallExtractMetricValue ==
    /\ x_pc = "ready"
    /\ Returned("_extract_metric_value", extract_metric_value(x_doc, x_metric))

\* _get_benchmark_value(benchmark) of simple_benchmark_validator.py, on the
\* first entry of the document.
CallGetBenchmarkValue ==
    /\ "benchmarks" \in DOMAIN x_doc
    /\ Len(x_doc.benchmarks) >= 1
    /\ Returned("_get_benchmark_value",
                S_get_benchmark_value(x_doc.benchmarks[1]))

\* self._get_benchmark_value(benchmark) of validate_performance.py, on the
\* first entry of the document.
CallPVGetBenchmarkValue ==
    /\ "benchmarks" \in DOMAIN x_doc
    /\ Len(x_doc.benchmarks) >= 1
    /\ Returned("PerformanceValidator._get_benchmark_value",
                PV_get_benchmark_value(x_doc.benchmarks[1]))

ExtractNext ==
    \/ CallExtractBenchmarkValue
    \/ CallExtractMetricValue
    \/ CallGetBenchmarkValue
    \/ CallPVGetBenchmarkValue

SpecExtract == ExtractInit /\ [][ExtractNext]_vars

(***************************************************************************)
(* Properties of validate_metric (SpecMetric)                              *)
(***************************************************************************)

\* observed > target * (1 + tolerance/100) and observed < target *
\* (1 - tolerance/100) over the rationals, for integers.
ExactlyAbove(observed, target, tolerance) ==
    observed * 100 > target * (100 + tolerance)

ExactlyBelow(observed, target, tolerance) ==
    observed * 100 < target * (100 - tolerance)

\* C3: under direction "lower" validate_metric fails iff observed >
\* target * (1 + tolerance/100), so a value exactly on the boundary passes
\* (target 1400, tolerance 15: 1610 passes, 1611 fails); every observed <=
\* target passes; and no larger observed value passes once a smaller failed.
C3_LowerFailsIffAboveBoundary ==
    (vm_pc = "done" /\ vm_config.direction = "lower") =>
        /\ ~vm_result.passed <=>
               ExactlyAbove(vm_current, vm_config.target, vm_config.tolerance)
        /\ vm_current <= vm_config.target => vm_result.passed
        /\ ~vm_result.passed =>
               \A o \in ObservedNear(vm_config.target, vm_config.tolerance) :
                   o > vm_current =>
                       ~validate_metric(FromInt(o), vm_config).passed

\* C4: under direction "higher" validate_metric fails iff observed <
\* target * (1 - tolerance/100); every observed >= target passes; and no
\* smaller observed value passes once a larger failed.
C4_HigherFailsIffBelowBoundary ==
    (vm_pc = "done" /\ vm_config.direction = "higher") =>
        /\ ~vm_result.passed <=>
               ExactlyBelow(vm_current, vm_config.target, vm_config.tolerance)
        /\ vm_current >= vm_config.target => vm_result.passed
        /\ ~vm_result.passed =>
               \A o \in ObservedNear(vm_config.target, vm_config.tolerance) :
                   o < vm_current =>
                       ~validate_metric(FromInt(o), vm_config).passed

\* The message of the finished call carries the observed value, the target
\* and the deviation ((observed - target) / target) * 100 with its sign, the
\* "+" that the DEGRADED message of direction "lower" prints included.
ReportsNumbers ==
    /\ vm_result.current = FromInt(vm_current)
    /\ vm_result.target = vm_config.target
    /\ vm_result.dev = Deviation(FromInt(vm_current), vm_config.target)
    /\ vm_result.dev.s = Sign(vm_current - vm_config.target)
    /\ (vm_config.direction = "lower" /\ vm_result.tag = "DEGRADED")
           => vm_result.dev.s = 1

TagFollowsResult ==
    /\ vm_result.tag \in {"DEGRADED", "GOOD"}
    /\ vm_result.tag = "DEGRADED" <=> ~vm_result.passed
    /\ vm_result.tag = "GOOD" <=> vm_result.passed

\* C11 as stated: the message of every call reports the observed value, the
\* target and the signed deviation, and is tagged DEGRADED exactly when the
\* result is failed and GOOD exactly when it is passed.
C11_EveryMessageIsTaggedAndReports ==
    vm_pc = "done" => (ReportsNumbers /\ TagFollowsResult)

\* C11 amended: that holds of every call whose direction is "lower" or
\* "higher"; a call with any other direction fails with the message
\* UNKNOWN DIRECTION, which names the direction and none of the numbers.
C11_MessageOfKnownDirectionIsTaggedAndReports ==
    vm_pc = "done" =>
        IF vm_config.direction \in {"lower", "higher"}
        THEN ReportsNumbers /\ TagFollowsResult
        ELSE /\ ~vm_result.passed
             /\ vm_result.tag = "UNKNOWN DIRECTION"
             /\ vm_result.direction = vm_config.direction

\* C11 witness: a failed call of direction "lower", tagged DEGRADED, that
\* reports 1611 against 1400.
C11_Witness ==
    /\ vm_pc = "done"
    /\ vm_config = [target |-> 1400, tolerance |-> 15, direction |-> "lower"]
    /\ vm_current = 1611
    /\ ~vm_result.passed
    /\ vm_result.tag = "DEGRADED"
    /\ vm_result.current = FromInt(1611)

(***************************************************************************)
(* Properties of run_benchmark_and_validate (SpecSimple)                   *)
(***************************************************************************)

\* C1: the run exits 0 only if every metric passed, a metric whose value was
\* not found or could not be extracted counting as failed; and it exits 0 if
\* every metric passed and every executable ran.
C1_ExitZeroIffAllMetricsPass ==
    s_pc = "done" =>
        /\ s_exit_code = 0 =>
               \A i \in 1..Len(s_validation_results) :
                   s_validation_results[i].passed
        /\ ( /\ \A i \in 1..Len(s_validation_results) :
                    s_validation_results[i].passed
             /\ Len(s_results) = Len(Benchmarks(s_quick_mode)) ) =>
               s_exit_code = 0

\* The metric at position i of the table has a direction that is neither
\* "lower" nor "higher", and a value was found for it.
UnknownDirectionAt(i) ==
    /\ i <= Len(s_validation_results)
    /\ s_targets[i].config.direction \notin {"lower", "higher"}
    /\ s_validation_results[i].tag # "NOT FOUND"

\* C10: a direction other than lower/higher makes validate_metric return
\* failed with the UNKNOWN DIRECTION message for every observed value, target
\* and tolerance; in a run the metric is recorded as failed, the run goes on
\* to every remaining metric, and it exits 1.
C10_UnknownDirectionFailsRunContinues ==
    /\ (s_pc = "run" /\ s_bench_i = 1) =>
           \A t \in Targets, tol \in Tolerances :
               \A o \in ObservedNear(t, tol) :
                   LET r == validate_metric(FromInt(o),
                                [target |-> t, tolerance |-> tol,
                                 direction |-> "sideways"])
                   IN  ~r.passed /\ r.tag = "UNKNOWN DIRECTION"
    /\ \A i \in 1..Len(s_targets) :
           UnknownDirectionAt(i) =>
               /\ ~s_validation_results[i].passed
               /\ s_validation_results[i].tag = "UNKNOWN DIRECTION"
               /\ ~s_all_passed
               /\ s_pc = "done" => s_exit_code = 1
    /\ s_pc = "done" => Len(s_validation_results) = Len(s_targets)

\* C10 witness: a finished run whose first metric had an unknown direction
\* and whose second metric was still evaluated, and passed.
C10_Witness ==
    /\ s_pc = "done"
    /\ UnknownDirectionAt(1)
    /\ Len(s_validation_results) = 2
    /\ s_validation_results[2].tag = "GOOD"

\* The extraction of the metric at position i raised in some result document
\* (a matched entry without any recognised numeric field) and no document
\* gave a value.
Unreadable(i) ==
    /\ i <= Len(s_validation_results)
    /\ FindValue(s_results, s_targets[i].name).kind = "none"
    /\ \E j \in 1..Len(s_results) :
           ExtractBody(s_results[j].data, s_targets[i].name).kind = "raise"

\* C6: a matched record that lacks every recognised numeric field is reported
\* as an extraction error, never as NOT FOUND, the outcome of a metric that
\* is absent from the results.
C6_UnreadableIsNotReportedAsNotFound ==
    \A i \in 1..Len(s_targets) :
        Unreadable(i) => s_validation_results[i].tag # "NOT FOUND"

(***************************************************************************)
(* Properties of PerformanceValidator and main (SpecBaseline)              *)
(***************************************************************************)

BenchmarkSpec(k) == b_baselines.benchmarks[k]

DataOf(k) == BenchmarkData(b_current_results, BenchmarkSpec(k).name)

\* The loop of validate_all went past benchmark k and validated it.
Validated(k) ==
    /\ b_pc # "load"
    /\ k < b_bench_k
    /\ ~Falsy(DataOf(k))
    /\ ~HasErrorText(DataOf(k))

\* The number of outcomes in all_results before those of benchmark k.
RECURSIVE Offset(_)
Offset(k) ==
    IF k = 1 THEN 0
    ELSE Offset(k - 1) + IF Validated(k - 1)
                         THEN Len(BenchmarkSpec(k - 1).metrics) ELSE 0

\* The outcome of metric m of the validated benchmark k.
OutcomeOf(k, m) == b_all_results[Offset(k) + m]

Finished == b_pc = "done" /\ b_exit.line # "Error"

HasFail(results) ==
    \E i \in 1..Len(results) : results[i].result = "FAIL"

HasCriticalFail(results) ==
    \E i \in 1..Len(results) :
        results[i].result = "FAIL" /\ results[i].is_critical

\* C2: the exit code is 1 if some outcome is both FAIL and critical,
\* otherwise 1 if some outcome is FAIL and strict mode is on, otherwise 0;
\* a critical FAIL closes with the CRITICAL FAILURE line, a FAIL that is not
\* critical with the WARNING line.
C2_ExitCodePolicy ==
    Finished =>
        /\ b_exit.code = IF HasCriticalFail(b_all_results) THEN 1
                         ELSE IF HasFail(b_all_results) /\ b_strict_mode THEN 1
                         ELSE 0
        /\ HasCriticalFail(b_all_results) <=> b_exit.line = "CRITICAL FAILURE"
        /\ (HasFail(b_all_results) /\ ~HasCriticalFail(b_all_results))
               <=> b_exit.line = "WARNING"

\* C2 witness: without strict mode, a critical FAIL exits 1.
C2_Witness ==
    /\ Finished
    /\ ~b_strict_mode
    /\ HasCriticalFail(b_all_results)
    /\ b_exit = [code |-> 1, line |-> "CRITICAL FAILURE"]

\* C2 witness of the other two branches: without strict mode, a FAIL that is
\* not critical, of the same metric, exits 0.
C2_NonCriticalWitness ==
    /\ Finished
    /\ ~b_strict_mode
    /\ HasFail(b_all_results)
    /\ ~HasCriticalFail(b_all_results)
    /\ b_exit = [code |-> 0, line |-> "WARNING"]

\* The latency the order_book results carry.
LatencyObserved == b_current_results["order_book"].benchmarks[1].real_time

\* The classification by the deviation |observed - baseline| / baseline * 100
\* over the rationals, for integers.
ExactClass(observed, baseline, tolerance, strict) ==
    IF Abs(observed - baseline) * 100 <= tolerance * baseline THEN "PASS"
    ELSE IF Abs(observed - baseline) * 100 <= 2 * tolerance * baseline
    THEN (IF strict THEN "FAIL" ELSE "WARNING")
    ELSE "FAIL"

\* C5: an extracted value is classified by |d|, d = (observed - baseline) /
\* baseline * 100: PASS when |d| <= tolerance, WARNING (FAIL in strict mode)
\* when tolerance < |d| <= 2 * tolerance, FAIL beyond, the band edges
\* included as stated.
C5_ClassifiesByExactDeviation ==
    \A i \in 1..Len(b_all_results) :
        LET r == b_all_results[i]
        IN  (r.name = S_add_order_latency
                /\ r.result \in {"PASS", "WARNING", "FAIL"}) =>
            r.result = ExactClass(LatencyObserved, r.baseline,
                                  r.tolerance_percent, b_strict_mode)

WithoutMissing(results) == SelectSeq(results, LAMBDA r : r.result # "MISSING")

\* C8: a metric without configuration gets the outcome MISSING with baseline
\* and current value 0, whether validate_metric is called for a name the
\* baseline file does not have or validate_all meets an empty
\* configuration; the summary counts it under MISSING, not under FAIL, and
\* the exit status is the one of the run without it.
C8_NoConfigurationGivesMissing ==
    /\ \A k \in 1..Len(b_baselines.benchmarks) :
           \A bname \in {BenchmarkSpec(k).name, "feed_handler"} :
               LET r == PV_validate_metric(b_baselines, b_strict_mode, bname,
                                           S_queue_depth, DataOf(k))
               IN  /\ r.result = "MISSING"
                   /\ r.baseline = 0
                   /\ r.current = FZero
    /\ \A k \in 1..Len(b_baselines.benchmarks) :
           Validated(k) =>
               \A m \in 1..Len(BenchmarkSpec(k).metrics) :
                   BenchmarkSpec(k).metrics[m].config.empty =>
                       /\ OutcomeOf(k, m).result = "MISSING"
                       /\ OutcomeOf(k, m).baseline = 0
                       /\ OutcomeOf(k, m).current = FZero
    /\ Finished =>
           /\ b_summary["MISSING"] = Count(b_all_results, "MISSING")
           /\ b_summary["FAIL"] = Count(WithoutMissing(b_all_results), "FAIL")
           /\ b_exit = ExitOf(WithoutMissing(b_all_results),
                              Summary(WithoutMissing(b_all_results)),
                              b_strict_mode)

\* C8 witness: a run with a MISSING outcome and no FAIL that exits 0.
C8_Witness ==
    /\ Finished
    /\ b_baselines.benchmarks[1].metrics[1].config.empty
    /\ b_all_results[1].result = "MISSING"
    /\ b_summary["MISSING"] = 1
    /\ b_summary["FAIL"] = 0
    /\ b_exit = [code |-> 0, line |-> "SUCCESS"]

\* The same configuration with the other value of "critical".
FlipCritical(config) ==
    IF config.empty THEN config
    ELSE [config EXCEPT !.has_critical = TRUE,
                        !.critical = ~(config.has_critical /\ config.critical)]

FlipMetrics(metrics) ==
    [m \in 1..Len(metrics) |->
        [metrics[m] EXCEPT !.config = FlipCritical(metrics[m].config)]]

FlippedBaselines ==
    [b_baselines EXCEPT !.benchmarks =
        [k \in 1..Len(b_baselines.benchmarks) |->
            [BenchmarkSpec(k) EXCEPT
                !.metrics = FlipMetrics(BenchmarkSpec(k).metrics)]]]

\* C9: two configurations that differ only in "critical" give, for the same
\* results and strict setting, the same classification, current value and
\* deviation; is_critical of the outcome is the configuration's flag.
C9_CriticalDoesNotChangeClassification ==
    \A k \in 1..Len(b_baselines.benchmarks) :
        (Validated(k) /\ b_pc = "validate") =>
            LET flipped == validate_benchmark(FlippedBaselines, b_strict_mode,
                                              BenchmarkSpec(k).name, DataOf(k))
            IN  \A m \in 1..Len(BenchmarkSpec(k).metrics) :
                    LET config == BenchmarkSpec(k).metrics[m].config
                    IN  /\ flipped[m].result = OutcomeOf(k, m).result
                        /\ flipped[m].current = OutcomeOf(k, m).current
                        /\ flipped[m].deviation_percent
                               = OutcomeOf(k, m).deviation_percent
                        /\ ~config.empty =>
                               /\ OutcomeOf(k, m).is_critical
                                      = (config.has_critical /\ config.critical)
                               /\ flipped[m].is_critical
                                      = ~OutcomeOf(k, m).is_critical

\* C9 witness: a critical metric is classified WARNING, 14.1 percent off
\* its baseline, as the same metric is when it is not critical.
C9_Witness ==
    /\ b_pc = "validate"
    /\ Validated(1)
    /\ b_all_results[1].is_critical
    /\ b_all_results[1].result = "WARNING"
    /\ b_all_results[1].baseline = 1000
    /\ LatencyObserved = 1141

OnlyFails(results) == SelectSeq(results, LAMBDA r : r.result = "FAIL")

\* C16: the exit status depends only on the outcomes classified FAIL: it is
\* the one of the same run with every WARNING, MISSING and ERROR outcome
\* left out, and a run without any FAIL exits 0, in strict mode too, even
\* when a critical metric's outcome is ERROR.
C16_ExitDependsOnlyOnFail ==
    Finished =>
        /\ b_exit = ExitOf(OnlyFails(b_all_results),
                           Summary(OnlyFails(b_all_results)), b_strict_mode)
        /\ ~HasFail(b_all_results) => b_exit.code = 0

\* C16 witness: in strict mode, a critical metric whose value could not be
\* extracted, no FAIL, and exit 0.
C16_Witness ==
    /\ Finished
    /\ b_strict_mode
    /\ b_all_results # <<>>
    /\ b_all_results[1].result = "ERROR"
    /\ b_all_results[1].is_critical
    /\ ~HasFail(b_all_results)
    /\ b_exit.code = 0

(***************************************************************************)
(* Properties of the value extraction (SpecExtract)                        *)
(***************************************************************************)

Entries == IF "benchmarks" \in DOMAIN x_doc THEN x_doc.benchmarks ELSE <<>>

DoneCall(call) == x_pc = "done" /\ x_call = call

\* The entries whose name matches a pattern of the metric, in
\* simple_benchmark_validator.py.
Named == {i \in 1..Len(Entries) : NameMatches(Entries[i], metric_patterns(x_metric))}

RateCounters(bench) ==
    {j \in 1..Len(BenchCounters(bench)) :
        IsRateCounter(BenchCounters(bench)[j].name)}

AlternateRateKeys ==
    {"OperationsPerSecond", "MessagesPerSec", "OrdersPerSec", "items_per_second"}

\* The number a counter stands for: its "value", else its "real_time", else
\* 0, for a dict; itself, for a bare number.
CounterNumber(data) ==
    IF ~data.isdict THEN data.num
    ELSE IF data.has_value THEN data.value
    ELSE IF data.has_real_time THEN data.real_time
    ELSE 0

\* The first present timing field of an entry in the order real_time,
\* cpu_time, items_per_second, bytes_per_second; "" when it has none.
FirstTimingKey(bench) ==
    IF "real_time" \in DOMAIN bench THEN "real_time"
    ELSE IF "cpu_time" \in DOMAIN bench THEN "cpu_time"
    ELSE IF "items_per_second" \in DOMAIN bench THEN "items_per_second"
    ELSE IF "bytes_per_second" \in DOMAIN bench THEN "bytes_per_second"
    ELSE ""

\* C12: for a rate metric, when the first entry whose name matches has a
\* counter whose name contains per_second or throughput, the extraction
\* returns the number of the first such counter, not the entry's timing
\* field; it returns the entry's timing field only when the entry has no
\* such counter and none of the alternate rate fields.
C12_RateCounterBeforeTimingField ==
    (DoneCall("extract_benchmark_value") /\ IsRateMetric(x_metric)
        /\ Named # {}) =>
        LET bench == Entries[Min(Named)]
            rate  == RateCounters(bench)
        IN  /\ rate # {} =>
                /\ x_result
                       = Value(CounterNumber(BenchCounters(bench)[Min(rate)].data))
                /\ FirstTimingKey(bench) # "" =>
                       x_result # Value(bench[FirstTimingKey(bench)])
            /\ ( /\ FirstTimingKey(bench) # ""
                 /\ x_result = Value(bench[FirstTimingKey(bench)])
                 /\ FirstTimingKey(bench) # "items_per_second" ) =>
                /\ rate = {}
                /\ DOMAIN bench \cap AlternateRateKeys = {}
            /\ ( /\ rate = {}
                 /\ DOMAIN bench \cap AlternateRateKeys = {}
                 /\ "ns_per_op" \notin DOMAIN bench
                 /\ FirstTimingKey(bench) # "" ) =>
                x_result = Value(bench[FirstTimingKey(bench)])

\* C12 witness: sustained_load_ops_sec, against an entry with real_time 11
\* and the counter ops_per_second 41, resolves to 41.
C12_Witness ==
    /\ DoneCall("extract_benchmark_value")
    /\ x_metric = S_sustained_load_ops_sec
    /\ Named # {}
    /\ "real_time" \in DOMAIN Entries[Min(Named)]
    /\ RateCounters(Entries[Min(Named)]) # {}
    /\ x_result = Value(41)

\* The entries whose name matches the metric in validate_performance.py:
\* directly, or by a pattern group.
PVNamed ==
    {i \in 1..Len(Entries) :
        \/ DirectMatch(Entries[i], x_metric)
        \/ matches_metric_pattern(BenchName(Entries[i]), x_metric)}

\* The position <<entry, counter>> of every counter of the document.
CounterPositions ==
    UNION {{<<i, j>> : j \in 1..Len(BenchCounters(Entries[i]))} :
              i \in 1..Len(Entries)}

\* The counters, as <<entry, counter>>, that the counter scan of the called
\* script matches.
MatchedCounters ==
    {p \in CounterPositions :
        /\ p[1] \in 1..Len(Entries)
        /\ IF x_call = "extract_benchmark_value"
           THEN CounterMatches(BenchCounters(Entries[p[1]])[p[2]],
                               metric_patterns(x_metric))
           ELSE PV_CounterMatches(BenchCounters(Entries[p[1]])[p[2]], x_metric)}

\* The call returned the number of a counter that the counter scan matches.
ReturnedMatchedCounter ==
    \E p \in MatchedCounters :
        x_result = Value(CounterNumber(BenchCounters(Entries[p[1]])[p[2]].data))

\* C13: the tiers are applied in strict priority order.  A counter's value
\* is returned only if no entry's name matches in the earlier tiers, and
\* not-found (None in simple_benchmark_validator.py, the ValueError of
\* validate_performance.py) only if no entry's name and no counter matches.
C13_TiersInStrictPriorityOrder ==
    /\ DoneCall("extract_benchmark_value") =>
           /\ ReturnedMatchedCounter => Named = {}
           /\ x_result = None => (Named = {} /\ MatchedCounters = {})
    /\ DoneCall("_extract_metric_value") =>
           /\ ReturnedMatchedCounter => PVNamed = {}
           /\ (PVNamed = {} /\ MatchedCounters = {}) => x_result = Raise

\* The counters, as <<entry, counter>>, whose name contains a pattern once
\* both are lowered and rid of their underscores.
StrippedCounterHits(patterns) ==
    {p \in CounterPositions :
        /\ p[1] \in 1..Len(Entries)
        /\ \E k \in 1..Len(patterns) :
              Contains(Lower(StripUnderscores(patterns[k])),
                       Lower(StripUnderscores(
                           BenchCounters(Entries[p[1]])[p[2]].name)))}

\* The first of a set of <<entry, counter>> in document order.
FirstHit(hits) ==
    CHOOSE p \in hits :
        \A q \in hits : p[1] < q[1] \/ (p[1] = q[1] /\ p[2] <= q[2])

HitNumber(hits) ==
    CounterNumber(BenchCounters(Entries[FirstHit(hits)[1]])[FirstHit(hits)[2]].data)

\* C14: when no entry's name matches, the extraction returns the number of
\* the first counter whose name, underscores stripped and case ignored,
\* contains a pattern likewise stripped: its "value", else its "real_time",
\* for a dict, and the number itself for a bare counter.
C14_CounterFallbackStripsUnderscores ==
    /\ ( /\ DoneCall("extract_benchmark_value")
         /\ Named = {}
         /\ StrippedCounterHits(metric_patterns(x_metric)) # {} ) =>
           x_result = Value(HitNumber(StrippedCounterHits(metric_patterns(x_metric))))
    /\ ( /\ DoneCall("_extract_metric_value")
         /\ PVNamed = {}
         /\ StrippedCounterHits(<<x_metric>>) # {} ) =>
           x_result = Value(HitNumber(StrippedCounterHits(<<x_metric>>)))

\* C15: _get_benchmark_value of either script returns the first present
\* field of the entry in the order real_time, cpu_time, items_per_second,
\* bytes_per_second, and raises, returning no value, when the entry has
\* none of the four.
C15_FirstPresentTimingField ==
    (DoneCall("_get_benchmark_value")
        \/ DoneCall("PerformanceValidator._get_benchmark_value")) =>
        IF FirstTimingKey(Entries[1]) = ""
        THEN x_result = Raise
        ELSE x_result = Value(Entries[1][FirstTimingKey(Entries[1])])

\* C15 witness: an entry without real_time, with cpu_time 12 and
\* items_per_second 13, gives 12.
C15_Witness ==
    /\ DoneCall("_get_benchmark_value")
    /\ "real_time" \notin DOMAIN Entries[1]
    /\ {"cpu_time", "items_per_second"} \subseteq DOMAIN Entries[1]
    /\ x_result = Value(12)

\* C15 witness of the failure: an entry with none of the four fields makes
\* PerformanceValidator._get_benchmark_value raise.
C15_RaiseWitness ==
    /\ DoneCall("PerformanceValidator._get_benchmark_value")
    /\ FirstTimingKey(Entries[1]) = ""
    /\ x_result = Raise

====
